---- MODULE Spec2Model ----
(***************************************************************************)
(* The checkout-and-stock-consistency core of the e-commerce API:          *)
(* inventory (Item, StockMovement), cart (Cart, CartItem), orders (Order,  *)
(* OrderItem) and the request handlers that read and write them.           *)
(*                                                                         *)
(* The database is the committed state.  Every handler is a sequence of    *)
(* SQL statements; each statement is one step, so that requests interleave *)
(* between statements.  A statement outside transaction.atomic() commits   *)
(* at once (Django autocommit).  Inside transaction.atomic() the writes    *)
(* are kept in the request's write set `wr`, are visible to that request   *)
(* only, take a row lock on the Item rows they update, and reach the       *)
(* committed state when the block exits without an exception; each         *)
(* statement reads what is committed at that moment (READ COMMITTED, the   *)
(* isolation level Django runs PostgreSQL and MySQL at).                   *)
(*                                                                         *)
(* Money: a DecimalField holds a Decimal once a row is loaded from the     *)
(* database, but a freshly constructed instance carries the field's        *)
(* `default` as written in the model class.  Order declares                *)
(* `default=0.00`, a Python float, for subtotal, tax_amount, shipping_cost *)
(* and total_amount, and Python refuses Decimal + float with a TypeError.  *)
(* Money values therefore carry their Python type.                         *)
(***************************************************************************)
EXTENDS Integers, Sequences, FiniteSets, TLC

\* ------------------------------------------------------------------ bounds
NumItems == 2        \* items the shopkeeper creates
MaxQty == 2          \* largest quantity in a request
MaxRestocks == 1     \* restock movements recorded
MaxOrders == 2       \* orders_order ids handed out at a time

ItemIds == 1..NumItems
OrderIds == 1..MaxOrders
MaxStock == MaxQty + MaxRestocks
Reqs == {"r1", "r2"}
Users == {"u1", "u2"}
Prices == {3, 5}
\* the catalogue the shopkeeper enters: the name and the price of the n-th item
ItemName(i) == IF i = 1 THEN "A" ELSE IF i = 2 THEN "B" ELSE "C"
ItemPrice(i) == IF i = 2 THEN 5 ELSE 3

\* ------------------------------------------------------------- money types
Decimal(v) == [type |-> "Decimal", value |-> v]
Float(v) == [type |-> "float", value |-> v]
TypeError == [type |-> "TypeError", value |-> 0]

\* a + b as it would be if Python coerced a float operand to Decimal.
MoneyAdd_coerce(a, b) ==
    IF a.type = "TypeError" \/ b.type = "TypeError" THEN TypeError
    ELSE Decimal(a.value + b.value)

\* Python's a + b on Decimal and float operands: Decimal + float raises TypeError.
MoneyAdd(a, b) ==
    IF a.type = "TypeError" \/ b.type = "TypeError" THEN TypeError
    ELSE IF a.type = b.type THEN [type |-> a.type, value |-> a.value + b.value]
    ELSE TypeError

\* DecimalField(default=0.00): the attribute of a fresh instance.
DefaultMoney == Float(0)

\* DecimalField.get_db_prep_save: what is stored is a Decimal.
ToDb(m) == m.value

\* --------------------------------------------------------------- constants
NoItem == [id |-> 0, name |-> "", price |-> 0, quantity |-> 0, is_active |-> FALSE]
NoOrder == [id |-> 0, customer |-> "", status |-> "", subtotal |-> DefaultMoney,
            tax_amount |-> DefaultMoney, shipping_cost |-> DefaultMoney,
            total_amount |-> DefaultMoney]
NoResponse == [status |-> 0, message |-> "", unavailable_items |-> <<>>, order |-> 0]
NoArg == [item_id |-> 0, quantity |-> 0, name |-> "", price |-> 0,
          is_active |-> FALSE, order_id |-> 0, reason |-> ""]
EmptyFn == [x \in {} |-> 0]
NoWrites == [Item |-> EmptyFn, StockMovement |-> <<>>, Cart |-> FALSE,
             CartItem |-> {}, Order |-> EmptyFn, OrderItem |-> {}]
IdleReq == [op |-> "none", pc |-> "idle", user |-> "", arg |-> NoArg,
            lines |-> <<>>, idx |-> 0, unavailable_items |-> <<>>,
            checked |-> <<>>, item |-> NoItem, objs |-> <<>>, order |-> NoOrder,
            wr |-> NoWrites, exc |-> "", response |-> NoResponse]

Response(status, message) ==
    [status |-> status, message |-> message, unavailable_items |-> <<>>, order |-> 0]

\* Order.STATUS_CHOICES
STATUS_CHOICES == {"pending", "processing", "shipped", "delivered", "cancelled", "refunded"}

\* ---------------------------------------------------------------- the state
VARIABLES
    Item,           \* inventory_item rows: id -> [name, price, quantity, is_active]
    StockMovement,  \* inventory_stock_movement rows, in insertion order
    Cart,           \* the users that have a cart_cart row
    CartItem,       \* user -> the cart's cart_cartitem rows, newest first (-added_at)
    Order,          \* orders_order rows: id -> row
    OrderItem,      \* orders_orderitem rows
    req             \* the requests being served: slot -> the handler's frame

vars == <<Item, StockMovement, Cart, CartItem, Order, OrderItem, req>>
db == <<Item, StockMovement, Cart, CartItem, Order, OrderItem>>

Init ==
    /\ Item = EmptyFn
    /\ StockMovement = <<>>
    /\ Cart = {}
    /\ CartItem = [u \in Users |-> <<>>]
    /\ Order = EmptyFn
    /\ OrderItem = {}
    /\ req = [r \in Reqs |-> IdleReq]

\* ------------------------------------------------------------------ helpers
RECURSIVE SumSeq(_)
SumSeq(s) == IF s = <<>> THEN 0 ELSE Head(s) + SumSeq(Tail(s))

RECURSIVE SumLines(_)
\* Sum(F('quantity') * F('price')) over a set of OrderItem rows
SumLines(S) ==
    IF S = {} THEN 0
    ELSE LET x == CHOOSE y \in S : TRUE
         IN x.quantity * x.price + SumLines(S \ {x})

Min(S) == CHOOSE x \in S : \A y \in S : x <= y

\* The Item rows some other open transaction has updated (row locks).
LockedByOthers(r) == UNION {DOMAIN req[q].wr.Item : q \in Reqs \ {r}}

\* Item.objects.get(id=i) as request r sees it: its own update, else the committed row.
GetItem(r, i) ==
    LET row == IF i \in DOMAIN req[r].wr.Item THEN req[r].wr.Item[i] ELSE Item[i]
    IN [id |-> i, name |-> row.name, price |-> row.price,
        quantity |-> row.quantity, is_active |-> row.is_active]

\* Item.save(): every column of the row is written from the instance.
ItemRow(obj) == [name |-> obj.name, price |-> obj.price,
                 quantity |-> obj.quantity, is_active |-> obj.is_active]

\* The next value of the orders_order id sequence.
NewOrderId ==
    Min(OrderIds \ (DOMAIN Order \cup UNION {DOMAIN req[q].wr.Order : q \in Reqs}))

MovementsOf(i) == SelectSeq(StockMovement, LAMBDA m : m.item = i)

Set(req_, r, frame) == [req_ EXCEPT ![r] = frame]

\* The handler returns: its locals are gone, the response is on its way.  What
\* is kept is what the request log shows: the operation, the user, the order
\* the request named or created, the exception caught and the response.
Done(frame, response) ==
    [IdleReq EXCEPT !.op = frame.op, !.pc = "done", !.user = frame.user,
                    !.arg = [NoArg EXCEPT !.order_id = frame.arg.order_id],
                    !.order = frame.order,
                    !.exc = frame.exc, !.response = response]

Movement(i, change, reason) == [item |-> i, quantity_change |-> change, reason |-> reason]

Restocks == Cardinality({k \in 1..Len(StockMovement) :
                            StockMovement[k].reason \notin {"initial_stock", "sale", "order_cancelled"}})
RestocksInFlight == Cardinality({q \in Reqs : req[q].op = "restock_item" /\ req[q].pc # "done"})

\* ================================================================ inventory
\* a create_item whose serializer would let a negative quantity through
create_item_unvalidated(r, name, price, quantity) ==
    /\ req[r].op = "none"
    /\ Cardinality(DOMAIN Item) < NumItems
    /\ LET f == [IdleReq EXCEPT !.op = "create_item", !.user = "shopkeeper"]
           id == Cardinality(DOMAIN Item) + 1
           obj == [id |-> id, name |-> name, price |-> price,
                   quantity |-> quantity, is_active |-> TRUE]
       IN /\ Item' = (id :> ItemRow(obj)) @@ Item
          /\ req' = Set(req, r, [f EXCEPT !.pc = "initial_stock", !.item = obj])
          /\ UNCHANGED <<StockMovement, Cart, CartItem, Order, OrderItem>>

\* POST /inventory/new: ItemCreateSerializer validates, then create() inserts the
\* Item row (autocommit).
create_item(r, name, price, quantity) ==
    /\ req[r].op = "none"
    /\ Cardinality(DOMAIN Item) < NumItems
    /\ LET f == [IdleReq EXCEPT !.op = "create_item", !.user = "shopkeeper"]
           id == Cardinality(DOMAIN Item) + 1
           obj == [id |-> id, name |-> name, price |-> price,
                   quantity |-> quantity, is_active |-> TRUE]
       IN IF price <= 0 \/ quantity < 0
          THEN /\ req' = Set(req, r, Done(f, Response(400, "Invalid data provided")))
               /\ UNCHANGED db
          ELSE /\ Item' = (id :> ItemRow(obj)) @@ Item
               /\ req' = Set(req, r, [f EXCEPT !.pc = "initial_stock", !.item = obj])
               /\ UNCHANGED <<StockMovement, Cart, CartItem, Order, OrderItem>>

\* ItemCreateSerializer.create, second statement: the initial_stock movement.
ItemCreateSerializer_create(r) ==
    /\ req[r].op = "create_item" /\ req[r].pc = "initial_stock"
    /\ StockMovement' =
         IF req[r].item.quantity > 0
         THEN Append(StockMovement,
                     Movement(req[r].item.id, req[r].item.quantity, "initial_stock"))
         ELSE StockMovement
    /\ req' = Set(req, r, Done(req[r], Response(201, "Item created successfully")))
    /\ UNCHANGED <<Item, Cart, CartItem, Order, OrderItem>>

\* PATCH /inventory/restock/<id>: get_object_or_404, then RestockSerializer.is_valid.
restock_item(r, i, quantity_to_add, reason) ==
    /\ req[r].op = "none"
    /\ Restocks + RestocksInFlight < MaxRestocks
    /\ LET f == [IdleReq EXCEPT !.op = "restock_item", !.user = "shopkeeper",
                                !.arg = [NoArg EXCEPT !.item_id = i,
                                                      !.quantity = quantity_to_add,
                                                      !.reason = reason]]
       IN IF i \notin DOMAIN Item
          THEN req' = Set(req, r, Done(f, Response(404, "Not found")))
          ELSE IF quantity_to_add < 1
          THEN req' = Set(req, r, Done(f, Response(400, "Invalid data provided")))
          ELSE /\ Item[i].quantity + quantity_to_add <= MaxStock
               /\ req' = Set(req, r, [f EXCEPT !.pc = "save", !.item = GetItem(r, i)])
    /\ UNCHANGED db

\* RestockSerializer.update: instance.quantity += quantity_to_add;
\* instance.save(update_fields=['quantity', 'restocked_at'])
RestockSerializer_update(r) ==
    /\ req[r].op = "restock_item" /\ req[r].pc = "save"
    /\ req[r].item.id \notin LockedByOthers(r)
    /\ LET q == req[r].item.quantity + req[r].arg.quantity
       IN /\ Item' = [Item EXCEPT ![req[r].item.id].quantity = q]
          /\ req' = Set(req, r, [req[r] EXCEPT !.pc = "log", !.item.quantity = q])
    /\ UNCHANGED <<StockMovement, Cart, CartItem, Order, OrderItem>>

\* a restock that would record no movement
RestockSerializer_log_silent(r) ==
    /\ req[r].op = "restock_item" /\ req[r].pc = "log"
    /\ req' = Set(req, r, Done(req[r], Response(200, "Item restocked successfully")))
    /\ UNCHANGED db

\* RestockSerializer.update: StockMovement.objects.create(..., reason=reason)
RestockSerializer_log(r) ==
    /\ req[r].op = "restock_item" /\ req[r].pc = "log"
    /\ StockMovement' = Append(StockMovement,
           Movement(req[r].item.id, req[r].arg.quantity, req[r].arg.reason))
    /\ req' = Set(req, r, Done(req[r], Response(200, "Item restocked successfully")))
    /\ UNCHANGED <<Item, Cart, CartItem, Order, OrderItem>>

\* PUT /inventory/update/<id>: get_object_or_404, then ItemUpdateSerializer.is_valid.
update_item(r, i, name, price, is_active) ==
    /\ req[r].op = "none"
    /\ LET f == [IdleReq EXCEPT !.op = "update_item", !.user = "shopkeeper",
                                !.arg = [NoArg EXCEPT !.item_id = i, !.name = name,
                                                      !.price = price,
                                                      !.is_active = is_active]]
       IN IF i \notin DOMAIN Item
          THEN req' = Set(req, r, Done(f, Response(404, "Not found")))
          ELSE IF price <= 0
          THEN req' = Set(req, r, Done(f, Response(400, "Invalid data provided")))
          ELSE req' = Set(req, r, [f EXCEPT !.pc = "save", !.item = GetItem(r, i)])
    /\ UNCHANGED db

\* an update that would carry the item's new name and price into the OrderItems
\* of the orders already placed
ItemUpdateSerializer_save_cascading(r) ==
    /\ req[r].op = "update_item" /\ req[r].pc = "save"
    /\ req[r].item.id \notin LockedByOthers(r)
    /\ LET obj == [req[r].item EXCEPT !.name = req[r].arg.name,
                                      !.price = req[r].arg.price,
                                      !.is_active = req[r].arg.is_active]
       IN /\ Item' = [Item EXCEPT ![obj.id] = ItemRow(obj)]
          /\ OrderItem' = {IF x.item = obj.id
                           THEN [x EXCEPT !.item_name = obj.name, !.price = obj.price]
                           ELSE x : x \in OrderItem}
          /\ req' = Set(req, r, Done([req[r] EXCEPT !.item = obj],
                                     Response(200, "Item updated successfully")))
    /\ UNCHANGED <<StockMovement, Cart, CartItem, Order>>

\* ItemUpdateSerializer.save(): ModelSerializer.update sets the validated
\* attributes on the instance read by the view and calls instance.save(), which
\* writes every column, the quantity read by the view included.
ItemUpdateSerializer_save(r) ==
    /\ req[r].op = "update_item" /\ req[r].pc = "save"
    /\ req[r].item.id \notin LockedByOthers(r)
    /\ LET obj == [req[r].item EXCEPT !.name = req[r].arg.name,
                                      !.price = req[r].arg.price,
                                      !.is_active = req[r].arg.is_active]
       IN /\ Item' = [Item EXCEPT ![obj.id] = ItemRow(obj)]
          /\ req' = Set(req, r, Done([req[r] EXCEPT !.item = obj],
                                     Response(200, "Item updated successfully")))
    /\ UNCHANGED <<StockMovement, Cart, CartItem, Order, OrderItem>>


\* ===================================================================== cart
\* a lookup that never finds the line
HasLine_never(lines, i) == FALSE /\ Len(lines) < i

HasLine(lines, i) == \E k \in 1..Len(lines) : lines[k].item = i
LineOf(lines, i) == lines[CHOOSE k \in 1..Len(lines) : lines[k].item = i]
Line(i, q) == [item |-> i, quantity |-> q]

\* The cart rows an open transaction of another request has deleted (row locks).
CartRowsLockedByOthers(r, u) ==
    UNION {req[q].wr.CartItem : q \in {x \in Reqs \ {r} : req[x].user = u}}

\* a Cart.is_empty that never answers True
is_empty_never(lines) == Len(lines) < 0

\* Cart.is_empty: self.cart_items.count() == 0
is_empty(lines) == Len(lines) = 0

\* a CartItem.is_available that does not compare the quantities
is_available_if_active(line, item) == item.is_active

\* CartItem.is_available
is_available(line, item) == item.is_active /\ item.quantity >= line.quantity

\* CartItem.clean, called by CartItem.save through full_clean: the ValidationError
\* it raises, or "".
CartItem_clean(line, item) ==
    IF ~item.is_active THEN "ValidationError"
    ELSE IF line.quantity > item.quantity THEN "ValidationError"
    ELSE ""

\* CartItem.full_clean as CartItem.save runs it: clean_fields with the
\* MinValueValidator(1) of quantity (models.py 108-110), then clean.
CartItem_full_clean(line, item) ==
    IF line.quantity < 1 THEN "ValidationError" ELSE CartItem_clean(line, item)

\* POST /cart/add/: AddToCartSerializer (quantity min_value=1, validate_item_id,
\* validate), each reading the Item row.
add_to_cart(r, u, i, quantity) ==
    /\ req[r].op = "none"
    /\ LET f == [IdleReq EXCEPT !.op = "add_to_cart", !.user = u,
                                !.arg = [NoArg EXCEPT !.item_id = i,
                                                      !.quantity = quantity]]
           invalid == \/ quantity < 1
                      \/ i \notin DOMAIN Item
                      \/ ~Item[i].is_active
                      \/ Item[i].quantity = 0
                      \/ quantity > Item[i].quantity
       IN IF invalid
          THEN req' = Set(req, r, Done(f, Response(400, "Invalid data provided")))
          ELSE req' = Set(req, r, [f EXCEPT !.pc = "atomic"])
    /\ UNCHANGED db

\* add_to_cart, the transaction.atomic() block: get_or_create_cart, Item.objects.get,
\* CartItem.objects.get_or_create, then the update of an existing line.
add_to_cart_atomic(r) ==
    /\ req[r].op = "add_to_cart" /\ req[r].pc = "atomic"
    /\ LET u == req[r].user
           i == req[r].arg.item_id
           q == req[r].arg.quantity
           item == GetItem(r, i)
           lines == CartItem[u]
       IN /\ i \notin CartRowsLockedByOthers(r, u)
          /\ IF ~HasLine(lines, i)
             THEN \* created: CartItem.objects.create -> save -> full_clean
                  IF CartItem_full_clean(Line(i, q), item) # ""
                  THEN /\ req' = Set(req, r, Done([req[r] EXCEPT !.exc = "ValidationError"],
                                          Response(500, "Failed to add item to cart")))
                       /\ UNCHANGED db
                  ELSE /\ Cart' = Cart \cup {u}
                       /\ CartItem' = [CartItem EXCEPT ![u] = <<Line(i, q)>> \o @]
                       /\ req' = Set(req, r, Done(req[r], Response(201, "Added to cart")))
                       /\ UNCHANGED <<Item, StockMovement, Order, OrderItem>>
             ELSE LET new_quantity == LineOf(lines, i).quantity + q
                  IN IF new_quantity > item.quantity
                     THEN /\ req' = Set(req, r, Done(req[r], Response(400, "Only some items available")))
                          /\ UNCHANGED db
                     ELSE IF CartItem_full_clean(Line(i, new_quantity), item) # ""
                     THEN /\ req' = Set(req, r, Done([req[r] EXCEPT !.exc = "ValidationError"],
                                             Response(500, "Failed to add item to cart")))
                          /\ UNCHANGED db
                     ELSE /\ CartItem' = [CartItem EXCEPT ![u] =
                                 [k \in 1..Len(lines) |->
                                     IF lines[k].item = i THEN Line(i, new_quantity)
                                     ELSE lines[k]]]
                          /\ req' = Set(req, r, Done(req[r], Response(201, "Updated quantity in cart")))
                          /\ UNCHANGED <<Item, StockMovement, Cart, Order, OrderItem>>

\* The requests once the rows of u's cart for the items I are deleted: a
\* CartItem instance that update_cart_item holds (frame.lines) has no row any
\* more, so its save() finds nothing to UPDATE.
RowsDeleted(rq, u, I) ==
    [q \in Reqs |->
        IF /\ rq[q].op = "update_cart_item" /\ rq[q].pc # "done"
           /\ rq[q].user = u /\ rq[q].arg.item_id \in I
        THEN [rq[q] EXCEPT !.lines = <<>>]
        ELSE rq[q]]

\* PUT /cart/update/<item_id>/: get_or_create_cart, then get_object_or_404 inside
\* the try block (views.py 186-187): the Http404 it raises is not
\* CartItem.DoesNotExist and reaches `except Exception`.
update_cart_item(r, u, i, quantity) ==
    /\ req[r].op = "none"
    /\ LET f == [IdleReq EXCEPT !.op = "update_cart_item", !.user = u,
                                !.arg = [NoArg EXCEPT !.item_id = i,
                                                      !.quantity = quantity]]
       IN req' = Set(req, r,
             IF ~HasLine(CartItem[u], i)
             THEN Done([f EXCEPT !.exc = "Http404"],
                       Response(500, "Failed to update cart item"))
             ELSE [f EXCEPT !.pc = "validate", !.lines = <<LineOf(CartItem[u], i)>>])
    /\ Cart' = Cart \cup {u}
    /\ UNCHANGED <<Item, StockMovement, CartItem, Order, OrderItem>>

\* UpdateCartItemSerializer.is_valid (serializers.py 75-89): quantity has
\* min_value=1; validate_quantity loads cart_item.item, which the instance keeps
UpdateCartItemSerializer(r) ==
    /\ req[r].op = "update_cart_item" /\ req[r].pc = "validate"
    /\ LET item == GetItem(r, req[r].arg.item_id)
           invalid == \/ req[r].arg.quantity < 1
                      \/ req[r].arg.quantity > item.quantity
       IN req' = Set(req, r,
             IF invalid THEN Done(req[r], Response(400, "Invalid data provided"))
             ELSE [req[r] EXCEPT !.pc = "save", !.item = item])
    /\ UNCHANGED db

\* cart_item.quantity = ...; cart_item.save() (views.py 195-196): full_clean
\* (clean with the item loaded by the serializer, validate_unique against the
\* rows of other primary keys), then UPDATE by primary key, and an INSERT of
\* the row when a concurrent request has deleted it.
update_cart_item_save(r) ==
    /\ req[r].op = "update_cart_item" /\ req[r].pc = "save"
    /\ LET u == req[r].user
           line == Line(req[r].arg.item_id, req[r].arg.quantity)
           lines == CartItem[u]
           gone == req[r].lines = <<>>
       IN IF CartItem_full_clean(line, req[r].item) # "" \/ (gone /\ HasLine(lines, line.item))
          THEN /\ req' = Set(req, r, Done([req[r] EXCEPT !.exc = "ValidationError"],
                                          Response(500, "Failed to update cart item")))
               /\ UNCHANGED db
          ELSE /\ CartItem' = [CartItem EXCEPT ![u] =
                      IF HasLine(lines, line.item)
                      THEN [k \in 1..Len(lines) |->
                               IF lines[k].item = line.item THEN line ELSE lines[k]]
                      ELSE <<line>> \o lines]
               /\ req' = Set(req, r, Done(req[r],
                                          Response(200, "Cart item updated successfully")))
               /\ UNCHANGED <<Item, StockMovement, Cart, Order, OrderItem>>

\* DELETE /cart/remove/<item_id>/: get_or_create_cart and get_object_or_404
\* (views.py 140-147), as in update_cart_item
remove_from_cart(r, u, i) ==
    /\ req[r].op = "none"
    /\ LET f == [IdleReq EXCEPT !.op = "remove_from_cart", !.user = u,
                                !.arg = [NoArg EXCEPT !.item_id = i]]
       IN req' = Set(req, r,
             IF ~HasLine(CartItem[u], i)
             THEN Done([f EXCEPT !.exc = "Http404"],
                       Response(500, "Failed to remove item from cart"))
             ELSE [f EXCEPT !.pc = "delete"])
    /\ Cart' = Cart \cup {u}
    /\ UNCHANGED <<Item, StockMovement, CartItem, Order, OrderItem>>

\* a removal that would give the line's quantity back to the item's stock
remove_from_cart_delete_releasing(r) ==
    /\ req[r].op = "remove_from_cart" /\ req[r].pc = "delete"
    /\ LET u == req[r].user
           i == req[r].arg.item_id
           released == IF HasLine(CartItem[u], i) THEN LineOf(CartItem[u], i).quantity ELSE 0
       IN /\ CartItem' = [CartItem EXCEPT ![u] = SelectSeq(@, LAMBDA l : l.item # i)]
          /\ Item' = [Item EXCEPT ![i].quantity = @ + released]
          /\ StockMovement' = Append(StockMovement, Movement(i, released, "cart_release"))
          /\ req' = Set(RowsDeleted(req, u, {i}), r,
                        Done(req[r], Response(200, "Removed from cart")))
    /\ UNCHANGED <<Cart, Order, OrderItem>>

\* cart_item.item.name; cart_item.delete() (views.py 149-150): DELETE by primary
\* key, which a row already deleted does not fail
remove_from_cart_delete(r) ==
    /\ req[r].op = "remove_from_cart" /\ req[r].pc = "delete"
    /\ LET u == req[r].user
           i == req[r].arg.item_id
       IN /\ CartItem' = [CartItem EXCEPT ![u] = SelectSeq(@, LAMBDA l : l.item # i)]
          /\ req' = Set(RowsDeleted(req, u, {i}), r,
                        Done(req[r], Response(200, "Removed from cart")))
    /\ UNCHANGED <<Item, StockMovement, Cart, Order, OrderItem>>

\* DELETE /cart/clear/: get_or_create_cart, cart.total_items, cart.clear()
\* (views.py 338-340; models.py 49-51)
clear_cart(r, u) ==
    /\ req[r].op = "none"
    /\ Cart' = Cart \cup {u}
    /\ CartItem' = [CartItem EXCEPT ![u] = <<>>]
    /\ req' = Set(RowsDeleted(req, u, ItemIds), r,
                  Done([IdleReq EXCEPT !.op = "clear_cart", !.user = u],
                       Response(200, "Cart cleared successfully")))
    /\ UNCHANGED <<Item, StockMovement, Order, OrderItem>>


\* =================================================================== orders
\* Order(...) as Order.objects.create leaves it in memory: the money fields not
\* passed to the constructor hold the declared default.
FreshOrder(id, u) ==
    [id |-> id, customer |-> u, status |-> "pending", subtotal |-> DefaultMoney,
     tax_amount |-> DefaultMoney, shipping_cost |-> DefaultMoney,
     total_amount |-> DefaultMoney]

\* The orders_order row an instance is saved as.
OrderRow(o) ==
    [customer |-> o.customer, status |-> o.status, subtotal |-> ToDb(o.subtotal),
     tax_amount |-> ToDb(o.tax_amount), shipping_cost |-> ToDb(o.shipping_cost),
     total_amount |-> ToDb(o.total_amount)]

\* The instance Order.objects.get loads from a row: every money field a Decimal.
LoadOrder(id, row) ==
    [id |-> id, customer |-> row.customer, status |-> row.status,
     subtotal |-> Decimal(row.subtotal), tax_amount |-> Decimal(row.tax_amount),
     shipping_cost |-> Decimal(row.shipping_cost),
     total_amount |-> Decimal(row.total_amount)]

\* OrderItem.objects.create(order, item, item_name, item_sku, quantity, price);
\* the sku never changes after the item is created and is left out.
NewOrderItem(order_id, item, quantity) ==
    [order |-> order_id, item |-> item.id, item_name |-> item.name,
     quantity |-> quantity, price |-> item.price]

\* order.order_items as request r sees them.
OrderItemsOf(r, order_id) ==
    {x \in OrderItem \cup req[r].wr.OrderItem : x.order = order_id}

\* unique_together = ['order', 'item']
Duplicate(r, order_id, i) == \E x \in OrderItemsOf(r, order_id) : x.item = i

\* Order.calculate_totals: the exception it raises ("" for none) and the instance
\* as it leaves it.  The aggregate is a Decimal (`or Decimal('0.00')` when there
\* is no row); self.subtotal is assigned before the sum that can raise.
calculate_totals(order, items) ==
    LET subtotal == Decimal(SumLines(items))
        total == MoneyAdd(MoneyAdd(subtotal, order.tax_amount), order.shipping_cost)
    IN IF total.type = "TypeError"
       THEN [exc |-> "TypeError", order |-> [order EXCEPT !.subtotal = subtotal]]
       ELSE [exc |-> "",
             order |-> [order EXCEPT !.subtotal = subtotal, !.total_amount = total]]

\* The handlers' pcs inside `with transaction.atomic():`.
AtomicOps == {"checkout_cart", "create_order", "cancel_order"}
AtomicPcs == {"atomic", "list", "validate", "order_items", "debit", "co_items",
              "restore", "restore_save", "exit"}
InAtomic(f) == f.op \in AtomicOps /\ f.pc \in AtomicPcs

\* The message of the handler's `except Exception` branch.
FailureMessage(op) ==
    CASE op = "checkout_cart" -> "Checkout failed"
      [] op = "create_order" -> "Failed to create order"
      [] OTHER -> "Failed to cancel order"

\* ------------------------------------------------------------ checkout_cart
\* POST /cart/checkout/: CheckoutSerializer.is_valid
checkout_cart(r, u, valid) ==
    /\ req[r].op = "none"
    /\ LET f == [IdleReq EXCEPT !.op = "checkout_cart", !.user = u]
       IN req' = Set(req, r, IF valid THEN [f EXCEPT !.pc = "atomic"]
                             ELSE Done(f, Response(400, "Invalid data provided")))
    /\ UNCHANGED db

\* get_or_create_cart and `if cart.is_empty` (views.py 242-249)
checkout_get_cart(r) ==
    /\ req[r].op = "checkout_cart" /\ req[r].pc = "atomic"
    /\ LET f == [req[r] EXCEPT !.wr.Cart = req[r].user \notin Cart]
       IN req' = Set(req, r,
                     IF is_empty(CartItem[f.user])
                     THEN [f EXCEPT !.pc = "exit", !.response = Response(400, "Cart is empty")]
                     ELSE [f EXCEPT !.pc = "list"])
    /\ UNCHANGED db

\* `for cart_item in cart.cart_items.all()` of the availability loop: the query
checkout_list(r) ==
    /\ req[r].op = "checkout_cart" /\ req[r].pc = "list"
    /\ req' = Set(req, r, [req[r] EXCEPT !.pc = "validate", !.idx = 1,
                                         !.lines = CartItem[req[r].user]])
    /\ UNCHANGED db

\* one iteration of the availability loop (views.py 253-255): cart_item.item is
\* loaded and is_available evaluated
checkout_validate(r) ==
    /\ req[r].op = "checkout_cart" /\ req[r].pc = "validate"
    /\ req[r].idx <= Len(req[r].lines)
    /\ LET line == req[r].lines[req[r].idx]
           item == GetItem(r, line.item)
       IN req' = Set(req, r,
             [req[r] EXCEPT
                !.idx = @ + 1,
                !.checked = Append(@, [line |-> line, item |-> item]),
                !.unavailable_items =
                    IF is_available(line, item) THEN @ ELSE Append(@, item.name)])
    /\ UNCHANGED db

\* `if unavailable_items: return ...`, else Order.objects.create and the query of
\* the second loop (views.py 257-274)
checkout_create_order(r) ==
    /\ req[r].op = "checkout_cart" /\ req[r].pc = "validate"
    /\ req[r].idx > Len(req[r].lines)
    /\ IF req[r].unavailable_items # <<>>
       THEN req' = Set(req, r,
                [req[r] EXCEPT !.pc = "exit",
                    !.response = [Response(400, "Some items are no longer available")
                                    EXCEPT !.unavailable_items = req[r].unavailable_items]])
       ELSE /\ OrderIds \ (DOMAIN Order \cup UNION {DOMAIN req[q].wr.Order : q \in Reqs}) # {}
            /\ LET order == FreshOrder(NewOrderId, req[r].user)
               IN req' = Set(req, r,
                    [req[r] EXCEPT !.pc = "order_items", !.idx = 1, !.order = order,
                                   !.lines = CartItem[req[r].user],
                                   !.wr.Order = (order.id :> OrderRow(order))])
    /\ UNCHANGED db

\* OrderItem.objects.create(...) of one cart line; cart_item.item is loaded here
\* (views.py 276-283)
checkout_order_item(r) ==
    /\ req[r].op = "checkout_cart" /\ req[r].pc = "order_items"
    /\ req[r].idx <= Len(req[r].lines)
    /\ LET line == req[r].lines[req[r].idx]
           item == GetItem(r, line.item)
       IN req' = Set(req, r,
             IF Duplicate(r, req[r].order.id, item.id)
             THEN [req[r] EXCEPT !.pc = "exit", !.exc = "IntegrityError"]
             ELSE [req[r] EXCEPT
                     !.pc = "debit", !.item = item,
                     !.wr.OrderItem = @ \cup {NewOrderItem(req[r].order.id, item, line.quantity)}])
    /\ UNCHANGED db

\* item.quantity -= cart_item.quantity; item.save(); StockMovement.objects.create
\* (views.py 286-295)
checkout_debit(r) ==
    /\ req[r].op = "checkout_cart" /\ req[r].pc = "debit"
    /\ req[r].item.id \notin LockedByOthers(r)
    /\ LET line == req[r].lines[req[r].idx]
           item == [req[r].item EXCEPT !.quantity = @ - line.quantity]
       IN req' = Set(req, r,
             [req[r] EXCEPT
                !.pc = "order_items", !.idx = @ + 1, !.item = item,
                !.wr.Item = (item.id :> ItemRow(item)) @@ @,
                !.wr.StockMovement = Append(@, Movement(item.id, -line.quantity, "sale"))])
    /\ UNCHANGED db

\* order.calculate_totals(); cart.clear(); the 201 response (views.py 297-312)
checkout_finish(r) ==
    /\ req[r].op = "checkout_cart" /\ req[r].pc = "order_items"
    /\ req[r].idx > Len(req[r].lines)
    /\ LET t == calculate_totals(req[r].order, OrderItemsOf(r, req[r].order.id))
       IN req' = Set(req, r,
             IF t.exc # ""
             THEN [req[r] EXCEPT !.pc = "exit", !.exc = t.exc, !.order = t.order]
             ELSE [req[r] EXCEPT
                     !.pc = "exit", !.order = t.order,
                     !.wr.Order = (t.order.id :> OrderRow(t.order)) @@ @,
                     !.wr.CartItem = {CartItem[req[r].user][k].item :
                                         k \in 1..Len(CartItem[req[r].user])},
                     !.response = [Response(201, "Order placed successfully")
                                     EXCEPT !.order = t.order.id]])
    /\ UNCHANGED db


\* ------------------------------------------------------------- create_order
\* a direct order that would empty the customer's cart as it arrives
create_order_clearing_cart(r, u, items, valid) ==
    /\ req[r].op = "none"
    /\ LET f == [IdleReq EXCEPT !.op = "create_order", !.user = u, !.lines = items]
       IN req' = Set(req, r, IF valid THEN [f EXCEPT !.pc = "validate_items", !.idx = 1]
                             ELSE Done(f, Response(400, "Invalid data provided")))
    /\ CartItem' = [CartItem EXCEPT ![u] = <<>>]
    /\ UNCHANGED <<Item, StockMovement, Cart, Order, OrderItem>>

\* POST /orders/new: the request; CreateOrderSerializer.is_valid runs next
create_order(r, u, items, valid) ==
    /\ req[r].op = "none"
    /\ LET f == [IdleReq EXCEPT !.op = "create_order", !.user = u, !.lines = items]
       IN req' = Set(req, r, IF valid THEN [f EXCEPT !.pc = "validate_items", !.idx = 1]
                             ELSE Done(f, Response(400, "Invalid data provided")))
    /\ UNCHANGED db

\* CreateOrderSerializer.validate_items, one entry (serializers.py 73-113): the
\* Item is loaded outside any transaction and kept in validated_items
validate_items(r) ==
    /\ req[r].op = "create_order" /\ req[r].pc = "validate_items"
    /\ req[r].idx <= Len(req[r].lines)
    /\ LET e == req[r].lines[req[r].idx]
           invalid == \/ e.quantity <= 0
                      \/ e.item \notin DOMAIN Item
                      \/ ~Item[e.item].is_active
                      \/ Item[e.item].quantity < e.quantity
       IN req' = Set(req, r,
             IF invalid THEN Done(req[r], Response(400, "Invalid data provided"))
             ELSE [req[r] EXCEPT !.idx = @ + 1, !.objs = Append(@, GetItem(r, e.item))])
    /\ UNCHANGED db

\* `with transaction.atomic():` and Order.objects.create (views.py 110-120)
create_order_begin(r) ==
    /\ req[r].op = "create_order" /\ req[r].pc = "validate_items"
    /\ req[r].idx > Len(req[r].lines)
    /\ OrderIds \ (DOMAIN Order \cup UNION {DOMAIN req[q].wr.Order : q \in Reqs}) # {}
    /\ LET order == FreshOrder(NewOrderId, req[r].user)
       IN req' = Set(req, r, [req[r] EXCEPT !.pc = "co_items", !.idx = 1, !.order = order,
                                            !.wr.Order = (order.id :> OrderRow(order))])
    /\ UNCHANGED db

\* one iteration of the loop over validated_items (views.py 123-146): the
\* OrderItem, then the debit of the instance loaded by the serializer
create_order_line(r) ==
    /\ req[r].op = "create_order" /\ req[r].pc = "co_items"
    /\ req[r].idx <= Len(req[r].lines)
    /\ LET quantity == req[r].lines[req[r].idx].quantity
           loaded == req[r].objs[req[r].idx]
           item == [loaded EXCEPT !.quantity = @ - quantity]
       IN IF Duplicate(r, req[r].order.id, loaded.id)
          THEN req' = Set(req, r, [req[r] EXCEPT !.pc = "exit", !.exc = "IntegrityError"])
          ELSE /\ loaded.id \notin LockedByOthers(r)
               /\ req' = Set(req, r,
                    [req[r] EXCEPT
                       !.idx = @ + 1, !.item = item,
                       !.wr.OrderItem = @ \cup {NewOrderItem(req[r].order.id, loaded, quantity)},
                       !.wr.Item = (item.id :> ItemRow(item)) @@ @,
                       !.wr.StockMovement = Append(@, Movement(item.id, -quantity, "sale"))])
    /\ UNCHANGED db

\* order.calculate_totals() and the 201 response (views.py 148-160)
create_order_finish(r) ==
    /\ req[r].op = "create_order" /\ req[r].pc = "co_items"
    /\ req[r].idx > Len(req[r].lines)
    /\ LET t == calculate_totals(req[r].order, OrderItemsOf(r, req[r].order.id))
       IN req' = Set(req, r,
             IF t.exc # ""
             THEN [req[r] EXCEPT !.pc = "exit", !.exc = t.exc, !.order = t.order]
             ELSE [req[r] EXCEPT
                     !.pc = "exit", !.order = t.order,
                     !.wr.Order = (t.order.id :> OrderRow(t.order)) @@ @,
                     !.response = [Response(201, "Order created successfully")
                                     EXCEPT !.order = t.order.id]])
    /\ UNCHANGED db

\* ------------------------------------------------------------- cancel_order
RECURSIVE ByItem(_)
\* the rows of a set of OrderItems as the sequence a query returns them in
ByItem(S) ==
    IF S = {} THEN <<>>
    ELSE LET x == CHOOSE y \in S : \A z \in S : y.item <= z.item
         IN <<x>> \o ByItem(S \ {x})

\* a status test that lets every order but a cancelled one through
Cancellable_unless_cancelled(status) == status # "cancelled"

\* `order.status not in ['pending', 'processing']` refuses the cancellation
Cancellable(status) == status \in {"pending", "processing"}

\* a lookup of the order that would not filter on the customer
get_order_or_404_of_anyone(u, id) == id \in DOMAIN Order /\ u \in Users

\* get_object_or_404(Order, id=order_id, customer=request.user) finds the order
get_order_or_404(u, id) == id \in DOMAIN Order /\ Order[id].customer = u

\* POST /orders/cancel/<order_id>: the request
cancel_order(r, u, order_id) ==
    /\ req[r].op = "none"
    /\ req' = Set(req, r, [IdleReq EXCEPT !.op = "cancel_order", !.user = u, !.pc = "lookup",
                                          !.arg = [NoArg EXCEPT !.order_id = order_id]])
    /\ UNCHANGED db

\* cancel_order, statement by statement (views.py 184-222).  get_object_or_404
\* raises Http404 inside the try block, where `except Exception` turns it into
\* the 500 response.
cancel_order_step(r) ==
    /\ req[r].op = "cancel_order"
    /\ req[r].pc \in {"lookup", "atomic", "restore", "restore_save"}
    /\ LET f == req[r]
           id == f.arg.order_id
       IN CASE f.pc = "lookup" ->
                 req' = Set(req, r,
                   IF ~get_order_or_404(f.user, id)
                   THEN Done([f EXCEPT !.exc = "Http404"], Response(500, "Failed to cancel order"))
                   ELSE IF ~Cancellable(Order[id].status)
                   THEN Done(f, Response(400, "Cannot cancel order"))
                   ELSE [f EXCEPT !.pc = "atomic", !.order = LoadOrder(id, Order[id])])
            [] f.pc = "atomic" ->
                 req' = Set(req, r, [f EXCEPT !.pc = "restore", !.idx = 1,
                                              !.lines = ByItem(OrderItemsOf(r, id))])
            [] f.pc = "restore" /\ f.idx <= Len(f.lines) ->
                 req' = Set(req, r, [f EXCEPT !.pc = "restore_save",
                                              !.item = GetItem(r, f.lines[f.idx].item)])
            [] f.pc = "restore" /\ f.idx > Len(f.lines) ->
                 LET order == [f.order EXCEPT !.status = "cancelled"]
                 IN req' = Set(req, r,
                      [f EXCEPT !.pc = "exit", !.order = order,
                                !.wr.Order = (id :> OrderRow(order)) @@ @,
                                !.response = [Response(200, "Order cancelled successfully")
                                                EXCEPT !.order = id]])
            [] f.pc = "restore_save" ->
                 LET item == [f.item EXCEPT !.quantity = @ + f.lines[f.idx].quantity]
                 IN /\ item.id \notin LockedByOthers(r)
                    /\ req' = Set(req, r,
                         [f EXCEPT !.pc = "restore", !.idx = @ + 1, !.item = item,
                                   !.wr.Item = (item.id :> ItemRow(item)) @@ @,
                                   !.wr.StockMovement =
                                       Append(@, Movement(item.id, f.lines[f.idx].quantity,
                                                          "order_cancelled"))])
    /\ UNCHANGED db

\* ------------------------------------------------------------- transactions
\* Leaving `with transaction.atomic():` without an exception: COMMIT.
Commit(r) ==
    LET w == req[r].wr
        u == req[r].user
    IN /\ Item' = [i \in DOMAIN Item |-> IF i \in DOMAIN w.Item THEN w.Item[i] ELSE Item[i]]
       /\ StockMovement' = StockMovement \o w.StockMovement
       /\ Cart' = IF w.Cart THEN Cart \cup {u} ELSE Cart
       /\ CartItem' = IF w.CartItem = {} THEN CartItem
                      ELSE [CartItem EXCEPT ![u] =
                               SelectSeq(@, LAMBDA l : l.item \notin w.CartItem)]
       /\ Order' = [id \in DOMAIN Order \cup DOMAIN w.Order |->
                       IF id \in DOMAIN w.Order THEN w.Order[id] ELSE Order[id]]
       /\ OrderItem' = OrderItem \cup w.OrderItem

\* an exit with an exception that would keep the writes
Rollback_commits(r) == Commit(r)

\* Leaving `with transaction.atomic():` with an exception: ROLLBACK.
Rollback(r) == UNCHANGED db

\* Atomic.__exit__, then the handler's return or its `except Exception` branch.
atomic_exit(r) ==
    /\ InAtomic(req[r]) /\ req[r].pc = "exit"
    /\ IF req[r].exc # ""
       THEN /\ Rollback(r)
            /\ req' = Set(req, r, Done(req[r], Response(500, FailureMessage(req[r].op))))
       ELSE /\ Commit(r)
            /\ req' = Set(RowsDeleted(req, req[r].user, req[r].wr.CartItem), r,
                          Done(req[r], req[r].response))

\* A statement of the block fails in the database (connection lost, deadlock
\* victim, statement timeout): the exception leaves the block.
storage_failure(r) ==
    /\ InAtomic(req[r]) /\ req[r].exc = ""
    /\ req' = Set(req, r, [req[r] EXCEPT !.pc = "exit", !.exc = "OperationalError"])
    /\ UNCHANGED db

\* The response is sent; the worker takes the next request.
respond(r) ==
    /\ req[r].pc = "done"
    /\ req' = Set(req, r, IdleReq)
    /\ UNCHANGED db

\* ------------------------------------------------------------ specification
\* The item lists of the direct orders tried: one entry, or two entries of one unit.
ItemLists(I) ==
    {<<Line(i, q)>> : i \in I, q \in 1..MaxQty}
    \cup {<<Line(i, 1), Line(j, 1)>> : i \in I, j \in I}

\* The shop once the shopkeeper has entered the items I through create_item with
\* a quantity of Q: every item active, its initial_stock movement recorded, no
\* cart, no order.
InitShop(I, Q) ==
    /\ \E stock \in [I -> Q] :
          /\ Item = [i \in I |->
                        [name |-> ItemName(i), price |-> ItemPrice(i),
                         quantity |-> stock[i], is_active |-> TRUE]]
          /\ StockMovement = [i \in I |-> Movement(i, stock[i], "initial_stock")]
    /\ Cart = {}
    /\ CartItem = [u \in Users |-> <<>>]
    /\ Order = EmptyFn
    /\ OrderItem = {}
    /\ req = [r \in Reqs |-> IdleReq]

NewItems ==
    \/ \E r \in Reqs, q \in 0..MaxQty :
          create_item(r, ItemName(Cardinality(DOMAIN Item) + 1),
                      ItemPrice(Cardinality(DOMAIN Item) + 1), q)
    \/ \E r \in Reqs : ItemCreateSerializer_create(r)

Restocking ==
    \/ \E r \in Reqs, i \in ItemIds, n \in 1..MaxRestocks : restock_item(r, i, n, "restock")
    \/ \E r \in Reqs : RestockSerializer_update(r)
    \/ \E r \in Reqs : RestockSerializer_log(r)

Catalogue(I, P) ==
    \/ \E r \in Reqs, i \in I, a \in BOOLEAN : \E p \in P[i] :
          update_item(r, i, ItemName(i), p, a)
    \/ \E r \in Reqs : ItemUpdateSerializer_save(r)

Carts(U, I) ==
    \/ \E r \in Reqs, u \in U, i \in I, q \in 1..MaxQty : add_to_cart(r, u, i, q)
    \/ \E r \in Reqs : add_to_cart_atomic(r)

Checkout(U) ==
    \/ \E r \in Reqs, u \in U, v \in BOOLEAN : checkout_cart(r, u, v)
    \/ \E r \in Reqs : checkout_get_cart(r)
    \/ \E r \in Reqs : checkout_list(r)
    \/ \E r \in Reqs : checkout_validate(r)
    \/ \E r \in Reqs : checkout_create_order(r)
    \/ \E r \in Reqs : checkout_order_item(r)
    \/ \E r \in Reqs : checkout_debit(r)
    \/ \E r \in Reqs : checkout_finish(r)

DirectOrder(U, I) ==
    \/ \E r \in Reqs, u \in U, l \in ItemLists(I), v \in BOOLEAN : create_order(r, u, l, v)
    \/ \E r \in Reqs : validate_items(r)
    \/ \E r \in Reqs : create_order_begin(r)
    \/ \E r \in Reqs : create_order_line(r)
    \/ \E r \in Reqs : create_order_finish(r)

Cancel(U) ==
    \/ \E r \in Reqs, u \in U, o \in OrderIds : cancel_order(r, u, o)
    \/ \E r \in Reqs : cancel_order_step(r)

Transactions ==
    \/ \E r \in Reqs : atomic_exit(r)
    \/ \E r \in Reqs : storage_failure(r)
    \/ \E r \in Reqs : respond(r)

\* Two customers and one item: carts, checkouts, direct orders, cancellations.
Next ==
    \/ Carts(Users, {1}) \/ Checkout(Users) \/ DirectOrder(Users, {1})
    \/ Cancel(Users) \/ Transactions

Spec == InitShop({1}, 1..MaxQty) /\ [][Next]_vars

\* One customer and two items, which the shopkeeper restocks and (de)activates.
SamePrice == [i \in ItemIds |-> {ItemPrice(i)}]

NextCatalogue ==
    \/ Restocking \/ Catalogue(ItemIds, SamePrice) \/ Carts({"u1"}, ItemIds) \/ Checkout({"u1"}) \/ Transactions

SpecCatalogue == InitShop(ItemIds, {1}) /\ [][NextCatalogue]_vars

\* The shopkeeper alone, from the empty database.
AnyPrice == [i \in ItemIds |-> Prices]

NextInventory == NewItems \/ Restocking \/ Catalogue(ItemIds, AnyPrice) \/ \E r \in Reqs : respond(r)

SpecInventory == Init /\ [][NextInventory]_vars

\* The database of a shop that has taken an order: customer u1's order 1 of one
\* unit of every item, in any status of its life, with the debits and "sale"
\* movements of its placement and, if it was cancelled, the credits and
\* "order_cancelled" movements of its cancellation.
PlacedLines == {[order |-> 1, item |-> i, item_name |-> ItemName(i),
                 quantity |-> 1, price |-> ItemPrice(i)] : i \in ItemIds}

InitOrders ==
    /\ \E status \in STATUS_CHOICES :
          /\ Order = (1 :> [customer |-> "u1", status |-> status,
                            subtotal |-> SumLines(PlacedLines), tax_amount |-> 0,
                            shipping_cost |-> 0, total_amount |-> SumLines(PlacedLines)])
          /\ Item = [i \in ItemIds |->
                        [name |-> ItemName(i), price |-> ItemPrice(i),
                         quantity |-> IF status = "cancelled" THEN MaxQty ELSE MaxQty - 1,
                         is_active |-> TRUE]]
          /\ StockMovement =
                [i \in ItemIds |-> Movement(i, MaxQty, "initial_stock")]
                \o [i \in ItemIds |-> Movement(i, -1, "sale")]
                \o (IF status = "cancelled"
                    THEN [i \in ItemIds |-> Movement(i, 1, "order_cancelled")]
                    ELSE <<>>)
    /\ OrderItem = PlacedLines
    /\ Cart = {}
    /\ CartItem = [u \in Users |-> <<>>]
    /\ req = [r \in Reqs |-> IdleReq]

\* Two customers cancel orders while the shopkeeper restocks.
NextOrders == Cancel(Users) \/ Restocking \/ Transactions

SpecOrders == InitOrders /\ [][NextOrders]_vars

\* The shop that has taken u1's order serves u2's cart, checkouts and direct
\* orders of item 1 while u1 cancels.
NextDebits ==
    \/ Carts({"u2"}, {1}) \/ Checkout({"u2"}) \/ DirectOrder({"u2"}, {1})
    \/ Cancel({"u1"}) \/ Transactions

SpecDebits == InitOrders /\ [][NextDebits]_vars

\* The shopkeeper renames and re-prices the items.
Renaming(I) ==
    \/ \E r \in Reqs, i \in I, p \in Prices :
          \E n \in {ItemName(i), "Z"} : update_item(r, i, n, p, TRUE)
    \/ \E r \in Reqs : ItemUpdateSerializer_save(r)

\* The shop that has taken u1's order: the shopkeeper renames, re-prices and
\* restocks item 1, u2 orders it, u1 cancels.
NextHistory ==
    \/ Renaming({1}) \/ Restocking \/ DirectOrder({"u2"}, {1})
    \/ Cancel({"u1"}) \/ Transactions

SpecHistory == InitOrders /\ [][NextHistory]_vars

\* The customer edits the cart.
CartEditing(U, I) ==
    \/ \E r \in Reqs, u \in U, i \in I, q \in 0..MaxQty : update_cart_item(r, u, i, q)
    \/ \E r \in Reqs : UpdateCartItemSerializer(r)
    \/ \E r \in Reqs : update_cart_item_save(r)
    \/ \E r \in Reqs, u \in U, i \in I : remove_from_cart(r, u, i)
    \/ \E r \in Reqs : remove_from_cart_delete(r)
    \/ \E r \in Reqs, u \in U : clear_cart(r, u)

\* One customer fills and edits the cart while the shopkeeper restocks and
\* (de)activates the items.
NextCart ==
    \/ Carts({"u1"}, ItemIds) \/ CartEditing({"u1"}, ItemIds) \/ Restocking
    \/ Catalogue(ItemIds, SamePrice) \/ \E r \in Reqs : respond(r)

SpecCart == InitShop(ItemIds, {1}) /\ [][NextCart]_vars

\* One customer fills, edits and checks out the cart of item 1.
NextCartCheckout ==
    \/ Carts({"u1"}, {1}) \/ CartEditing({"u1"}, {1}) \/ Checkout({"u1"})
    \/ Transactions

SpecCartCheckout == InitShop({1}, 1..MaxQty) /\ [][NextCartCheckout]_vars

\* RestockSerializer.reason is a CharField(max_length=50, default="restock"): the
\* texts the shopkeeper sends with a restock.
RestockReasons == {"restock", "adjustment", "stocktake"}

RestockingFor(R) ==
    \/ \E r \in Reqs, i \in ItemIds, n \in 1..MaxRestocks, reason \in R :
          restock_item(r, i, n, reason)
    \/ \E r \in Reqs : RestockSerializer_update(r)
    \/ \E r \in Reqs : RestockSerializer_log(r)

\* The shopkeeper enters items and restocks them, giving a reason.
NextLedger == NewItems \/ RestockingFor(RestockReasons) \/ \E r \in Reqs : respond(r)

SpecLedger == Init /\ [][NextLedger]_vars

\* Requests executed one at a time: a request is taken only when no other is
\* under way or waiting for its response to be sent.
Quiet == \A q \in Reqs : req[q].op = "none"

\* The shop served one request at a time, from the empty database or from the
\* one that holds u1's order.  The shopkeeper's quantities include negative ones.
NextSerial ==
    \/ \E r \in Reqs, q \in -1..MaxQty :
          Quiet /\ create_item(r, ItemName(Cardinality(DOMAIN Item) + 1),
                               ItemPrice(Cardinality(DOMAIN Item) + 1), q)
    \/ \E r \in Reqs, i \in ItemIds, n \in -1..MaxRestocks :
          Quiet /\ restock_item(r, i, n, "restock")
    \/ \E r \in Reqs, i \in ItemIds, a \in BOOLEAN :
          Quiet /\ update_item(r, i, ItemName(i), ItemPrice(i), a)
    \/ \E r \in Reqs, i \in ItemIds, q \in 1..MaxQty :
          Quiet /\ add_to_cart(r, "u1", i, q)
    \/ \E r \in Reqs, i \in ItemIds, q \in 0..MaxQty :
          Quiet /\ update_cart_item(r, "u1", i, q)
    \/ \E r \in Reqs, v \in BOOLEAN : Quiet /\ checkout_cart(r, "u1", v)
    \/ \E r \in Reqs, l \in ItemLists(ItemIds), v \in BOOLEAN :
          Quiet /\ create_order(r, "u1", l, v)
    \/ \E r \in Reqs, o \in OrderIds : Quiet /\ cancel_order(r, "u1", o)
    \/ \E r \in Reqs : ItemCreateSerializer_create(r)
    \/ \E r \in Reqs : RestockSerializer_update(r)
    \/ \E r \in Reqs : RestockSerializer_log(r)
    \/ \E r \in Reqs : ItemUpdateSerializer_save(r)
    \/ \E r \in Reqs : add_to_cart_atomic(r)
    \/ \E r \in Reqs : UpdateCartItemSerializer(r)
    \/ \E r \in Reqs : update_cart_item_save(r)
    \/ \E r \in Reqs : checkout_get_cart(r)
    \/ \E r \in Reqs : checkout_list(r)
    \/ \E r \in Reqs : checkout_validate(r)
    \/ \E r \in Reqs : checkout_create_order(r)
    \/ \E r \in Reqs : checkout_order_item(r)
    \/ \E r \in Reqs : checkout_debit(r)
    \/ \E r \in Reqs : checkout_finish(r)
    \/ \E r \in Reqs : validate_items(r)
    \/ \E r \in Reqs : create_order_begin(r)
    \/ \E r \in Reqs : create_order_line(r)
    \/ \E r \in Reqs : create_order_finish(r)
    \/ \E r \in Reqs : cancel_order_step(r)
    \/ Transactions

SpecSerial == (Init \/ InitOrders) /\ [][NextSerial]_vars

\* =================================================================== claims
Debiting == {"checkout_cart", "create_order"}

RECURSIVE SumQuantity(_)
\* the units a set of OrderItem rows orders
SumQuantity(S) ==
    IF S = {} THEN 0
    ELSE LET x == CHOOSE y \in S : TRUE
         IN x.quantity + SumQuantity(S \ {x})

\* the units of item i in the committed orders that are not cancelled
Ordered(i) ==
    SumQuantity({x \in OrderItem : x.item = i /\ Order[x.order].status # "cancelled"})

\* the units of item i that entered the stock
Supplied(i) ==
    SumSeq([k \in 1..Len(MovementsOf(i)) |->
               IF MovementsOf(i)[k].reason \in {"sale", "order_cancelled"} THEN 0
               ELSE MovementsOf(i)[k].quantity_change])

\* what the claims speak of: all but the existence of a customer's (empty) cart row
books == <<Item, StockMovement, CartItem, Order, OrderItem>>

C4_FailureLeavesNoTrace ==
    [][\A r \in Reqs :
          (/\ req[r].op \in Debiting
           /\ req'[r] # req[r]
           /\ ~(req'[r].pc = "done" /\ req'[r].response.status = 201))
          => books' = books]_vars

\* A checkout that had debited its lines failed and has answered 500.
C4_Witness ==
    \E r \in Reqs :
        /\ req[r].op \in Debiting /\ req[r].pc = "done"
        /\ req[r].order.id # 0 /\ req[r].order.subtotal.value > 0
        /\ req[r].exc # "" /\ req[r].response.status = 500

\* the item's create_item request has inserted the row and not yet the movement
BeingCreated(i) ==
    \E r \in Reqs : /\ req[r].op = "create_item" /\ req[r].pc = "initial_stock"
                    /\ req[r].item.id = i

\* C3: in every committed state, the states between the steps of interleaved
\* restock_item and update_item requests included, the quantity of an item is
\* the sum of the quantity_change of its stock movements.
C3_QuantityIsSumOfMovements ==
    \A i \in DOMAIN Item :
        ~BeingCreated(i) =>
            Item[i].quantity =
                SumSeq([k \in 1..Len(MovementsOf(i)) |-> MovementsOf(i)[k].quantity_change])

\* calculate_totals has run in request r: the handler is past it, and no other
\* exception took it out of the block before.
TotalsRan(r) ==
    /\ req[r].op \in Debiting /\ req[r].pc = "exit" /\ req[r].order.id # 0
    /\ req[r].exc \notin {"OperationalError", "IntegrityError"}

\* C5: once calculate_totals has run for an order, its subtotal is the sum of
\* quantity * price over its items and its total_amount is subtotal + tax_amount
\* + shipping_cost, in the row the transaction is about to commit and in every
\* committed row.
C5_TotalsReconcile ==
    /\ \A r \in Reqs :
          TotalsRan(r) =>
             LET id == req[r].order.id
                 subtotal == SumLines(OrderItemsOf(r, id))
             IN /\ id \in DOMAIN req[r].wr.Order
                /\ req[r].wr.Order[id].subtotal = subtotal
                /\ req[r].wr.Order[id].total_amount =
                      subtotal + req[r].wr.Order[id].tax_amount
                               + req[r].wr.Order[id].shipping_cost
                /\ req[r].order.total_amount.value = req[r].wr.Order[id].total_amount
    /\ \A id \in DOMAIN Order :
          Order[id].subtotal # 0 =>
             /\ Order[id].subtotal = SumLines({x \in OrderItem : x.order = id})
             /\ Order[id].total_amount =
                   Order[id].subtotal + Order[id].tax_amount + Order[id].shipping_cost

\* the -q "sale" movement of each line, in the order of the lines
SaleMovements(lines) ==
    [k \in 1..Len(lines) |-> Movement(lines[k].item, -lines[k].quantity, "sale")]

\* C6: a checkout of a non-empty cart whose lines were all found available ends
\* with exactly one new pending Order of the customer, one OrderItem per line at
\* the item's price, each item debited by the quantity of its line, one
\* StockMovement(-q, "sale") per line, and the cart empty.
C6_CheckoutPlacesTheOrder ==
    [][\A r \in Reqs :
          (/\ req[r].op = "checkout_cart" /\ req[r].pc = "exit"
           /\ req[r].checked # <<>> /\ req[r].unavailable_items = <<>>
           /\ req[r].exc # "OperationalError"
           /\ req'[r].pc = "done")
          => LET u == req[r].user
                 id == req[r].order.id
                 lines == CartItem[u]
             IN /\ req'[r].response.status = 201
                /\ id \notin DOMAIN Order
                /\ DOMAIN Order' = DOMAIN Order \cup {id}
                /\ Order'[id].customer = u /\ Order'[id].status = "pending"
                /\ OrderItem' = OrderItem \cup
                      {[order |-> id, item |-> lines[k].item,
                        item_name |-> Item[lines[k].item].name,
                        quantity |-> lines[k].quantity,
                        price |-> Item[lines[k].item].price] : k \in 1..Len(lines)}
                /\ \A k \in 1..Len(lines) :
                      Item'[lines[k].item].quantity =
                          Item[lines[k].item].quantity - lines[k].quantity
                /\ StockMovement' = StockMovement \o SaleMovements(lines)
                /\ CartItem'[u] = <<>>]_vars

\* a line the availability loop looked at, with the item as the loop read it,
\* is inactive or short of stock
Offending(c) == ~c.item.is_active \/ c.item.quantity < c.line.quantity

RECURSIVE OffendingNames(_)
OffendingNames(checked) ==
    IF checked = <<>> THEN <<>>
    ELSE (IF Offending(Head(checked)) THEN <<Head(checked).item.name>> ELSE <<>>)
         \o OffendingNames(Tail(checked))

\* C7: a checkout that finds at least one line of the cart inactive or short of
\* stock answers 400 with exactly the names of those lines' items, whatever the
\* other lines are, creates no Order and changes no quantity.
C7_UnavailableLinesRefuse ==
    [][\A r \in Reqs :
          (/\ req[r].op = "checkout_cart" /\ req[r].pc = "exit"
           /\ \E k \in 1..Len(req[r].checked) : Offending(req[r].checked[k])
           /\ req[r].exc # "OperationalError"
           /\ req'[r].pc = "done")
          => /\ req'[r].response =
                   [Response(400, "Some items are no longer available")
                       EXCEPT !.unavailable_items = OffendingNames(req[r].checked)]
             /\ books' = books]_vars

\* A checkout of a cart of two lines has answered with the one name of the line
\* that asks for more than the active item has.
C7_Witness ==
    \E r \in Reqs :
        /\ req[r].op = "checkout_cart" /\ req[r].pc = "done"
        /\ req[r].response.status = 400
        /\ LET lines == CartItem[req[r].user]
           IN /\ Len(lines) = 2
              /\ \E k \in 1..2 :
                    /\ Item[lines[k].item].is_active
                    /\ Item[lines[k].item].quantity < lines[k].quantity
                    /\ Item[lines[3 - k].item].is_active
                    /\ Item[lines[3 - k].item].quantity >= lines[3 - k].quantity
                    /\ req[r].response.unavailable_items = <<Item[lines[k].item].name>>

\* C8: a checkout that finds the cart without lines answers 400 "Cart is empty",
\* creates no Order and changes no quantity.
C8_EmptyCartRefuses ==
    [][\A r \in Reqs :
          /\ (/\ req[r].op = "checkout_cart" /\ req[r].pc = "atomic"
              /\ CartItem[req[r].user] = <<>>
              /\ req'[r] # req[r] /\ req'[r].exc = "")
             => /\ req'[r].pc = "exit"
                /\ req'[r].response = Response(400, "Cart is empty")
          /\ (/\ req[r].op = "checkout_cart" /\ req[r].pc = "exit"
              /\ req[r].response.message = "Cart is empty" /\ req[r].exc = ""
              /\ req'[r].pc = "done")
             => /\ req'[r].response = Response(400, "Cart is empty")
                /\ books' = books]_vars

\* A checkout has answered that the cart is empty.
C8_Witness ==
    \E r \in Reqs :
        /\ req[r].op = "checkout_cart" /\ req[r].pc = "done"
        /\ req[r].response = Response(400, "Cart is empty")
        /\ CartItem[req[r].user] = <<>>

\* C9: when two checkouts of one customer have read the same lines of the cart
\* and the first of them returns, it returns with the order (201) or with
\* "Cart is empty" (400), and at most one Order comes of the two.
C9_OneOrderOfTwoCheckouts ==
    [][\A r1 \in Reqs, r2 \in Reqs :
          (/\ r1 # r2
           /\ req[r1].op = "checkout_cart" /\ req[r2].op = "checkout_cart"
           /\ req[r1].user = req[r2].user
           /\ req[r1].lines # <<>> /\ req[r1].lines = req[r2].lines
           /\ req[r1].pc \notin {"done", "idle"}
           /\ req[r2].pc = "exit" /\ req[r2].exc # "OperationalError"
           /\ req'[r2].pc = "done")
          => /\ \/ req'[r2].response.status = 201
                \/ req'[r2].response = Response(400, "Cart is empty")
             /\ Cardinality(DOMAIN Order') <= Cardinality(DOMAIN Order) + 1
             /\ req'[r2].response.status = 201 => req[r1].wr.Item = EmptyFn]_vars

\* the "order_cancelled" movement of each OrderItem, in the order of the query
CancelMovements(lines) ==
    [k \in 1..Len(lines) |-> Movement(lines[k].item, lines[k].quantity, "order_cancelled")]

\* C10: the customer's cancel_order of the order a checkout of theirs has placed
\* finds that order pending, and ends with every item's quantity restored by
\* the quantity of its line, one StockMovement(+q, "order_cancelled") per line
\* and the order cancelled.
C10_CancelRestoresStock ==
    [][\A r1 \in Reqs, r2 \in Reqs :
          /\ (/\ r1 # r2
              /\ req[r1].op = "checkout_cart" /\ req[r1].pc = "done"
              /\ req[r1].order.id # 0 /\ req[r1].exc # "OperationalError"
              /\ req[r2].op = "cancel_order" /\ req[r2].pc = "lookup"
              /\ req[r2].user = req[r1].user
              /\ req[r2].arg.order_id = req[r1].order.id
              /\ req'[r2] # req[r2])
             => /\ req[r1].order.id \in DOMAIN Order
                /\ Order[req[r1].order.id].status = "pending"
                /\ req'[r2].pc = "atomic"
          /\ (/\ req[r2].op = "cancel_order" /\ req[r2].pc = "exit"
              /\ req[r2].exc = "" /\ req'[r2].pc = "done")
             => LET id == req[r2].arg.order_id
                    lines == ByItem({x \in OrderItem : x.order = id})
                IN /\ req'[r2].response.status = 200
                   /\ Order'[id].status = "cancelled"
                   /\ \A k \in 1..Len(lines) :
                         Item'[lines[k].item].quantity =
                             Item[lines[k].item].quantity + lines[k].quantity
                   /\ StockMovement' = StockMovement \o CancelMovements(lines)]_vars

\* request r is a cancel_order about to look up an order that exists and is the caller's
CancelsOwnOrder(r) ==
    /\ req[r].op = "cancel_order" /\ req[r].pc = "lookup"
    /\ req[r].arg.order_id \in DOMAIN Order
    /\ Order[req[r].arg.order_id].customer = req[r].user

CreditsOf(x) ==
    {k \in 1..Len(StockMovement) :
        /\ StockMovement[k].reason = "order_cancelled"
        /\ StockMovement[k].item = x.item
        /\ StockMovement[k].quantity_change = x.quantity}

C13_UnknownOrderIsNotFound ==
    [][\A r \in Reqs :
          (/\ req[r].op = "cancel_order" /\ req[r].pc = "lookup"
           /\ ~CancelsOwnOrder(r)
           /\ req'[r] # req[r])
          => /\ req'[r].pc = "done"
             /\ req'[r].response.status = 404]_vars

\* the order status state graph
StatusGraph ==
    {<<"pending", "processing">>, <<"processing", "shipped">>, <<"shipped", "delivered">>,
     <<"pending", "cancelled">>, <<"processing", "cancelled">>,
     <<"pending", "refunded">>, <<"processing", "refunded">>, <<"shipped", "refunded">>}

SalesOf(i, q) ==
    {k \in 1..Len(StockMovement) :
        StockMovement[k] = Movement(i, -q, "sale")}

\* the committed OrderItems of q units of item i
OrderLinesOf(i, q) ==
    {x \in OrderItem : x.item = i /\ x.quantity = q /\ x.order \in DOMAIN Order}

C17_OnlyCheckoutEmptiesTheCart ==
    [][\A r \in Reqs :
          /\ req[r].op \in Debiting \/ req'[r].op \in Debiting
          /\ req'[r] # req[r]
          /\ ~(/\ req'[r].op = "checkout_cart" /\ req'[r].pc = "done"
               /\ req'[r].response.status = 201)
          => CartItem' = CartItem]_vars

\* A customer whose checkout and whose direct order have both failed still has
\* the cart line.
C17_Witness ==
    \E u \in Users :
        /\ CartItem[u] # <<>>
        /\ \E r, q \in Reqs :
              /\ req[r].op = "checkout_cart" /\ req[r].user = u
              /\ req[r].pc = "done" /\ req[r].response.status = 500
              /\ req[q].op = "create_order" /\ req[q].user = u
              /\ req[q].pc = "done" /\ req[q].response.status \in {400, 500}

\* C18: an add_to_cart whose resulting line quantity (the line's quantity, if
\* any, plus the quantity asked) exceeds Item.quantity when it is decided is
\* answered 400 and leaves the cart unchanged.
ResultingQuantity(u, i, q) ==
    IF HasLine(CartItem[u], i) THEN LineOf(CartItem[u], i).quantity + q ELSE q

C18_OverStockIsRefused ==
    [][\A r \in Reqs :
          \* the serializer: a request it lets through asks no more than the stock,
          \* one it refuses is answered 400
          /\ req[r].op = "none" /\ req'[r].op = "add_to_cart"
             => /\ CartItem' = CartItem
                /\ \/ req'[r].pc = "done" /\ req'[r].response.status = 400
                   \/ /\ req'[r].arg.item_id \in DOMAIN Item
                      /\ req'[r].arg.quantity <= Item[req'[r].arg.item_id].quantity
          \* the atomic block
          /\ /\ req[r].op = "add_to_cart" /\ req[r].pc = "atomic" /\ req'[r].pc = "done"
             /\ ResultingQuantity(req[r].user, req[r].arg.item_id, req[r].arg.quantity)
                   > Item[req[r].arg.item_id].quantity
             => /\ req'[r].response.status = 400
                /\ CartItem' = CartItem]_vars

\* C19: no step of add_to_cart, update_cart_item, remove_from_cart or clear_cart
\* changes an Item.quantity or appends a StockMovement.
CartOps == {"add_to_cart", "update_cart_item", "remove_from_cart", "clear_cart"}

C19_CartNeverTouchesStock ==
    [][\A r \in Reqs :
          /\ req[r].op \in CartOps \/ req'[r].op \in CartOps
          /\ req'[r] # req[r]
          => /\ \A i \in DOMAIN Item : Item'[i].quantity = Item[i].quantity
             /\ StockMovement' = StockMovement]_vars

\* The customer has put a line in the cart, changed its quantity and removed a
\* line (or cleared the cart); the stock is what the shopkeeper entered.
C19_Witness ==
    /\ \E r, q \in Reqs :
          /\ req[r].op = "update_cart_item" /\ req[r].pc = "done"
          /\ req[r].response.status = 200
          /\ req[q].op \in {"remove_from_cart", "clear_cart"} /\ req[q].pc = "done"
          /\ req[q].response.status = 200
    /\ \E u \in Users : CartItem[u] # <<>>
    /\ \A k \in 1..Len(StockMovement) : StockMovement[k].reason = "initial_stock"
    /\ \A i \in DOMAIN Item : Item[i].quantity = 1

\* C20: an update_cart_item of an existing line to a quantity <= 0 deletes the
\* line; to a quantity between 1 and Item.quantity it sets the line to that
\* quantity; to a greater quantity it fails and leaves the line unchanged.
C20_UpdateCartItem ==
    [][\A r \in Reqs :
          /\ req[r].op = "update_cart_item" /\ req[r].pc \in {"validate", "save"}
          /\ req'[r].pc = "done"
          /\ HasLine(CartItem[req[r].user], req[r].arg.item_id)
          => LET u == req[r].user
                 i == req[r].arg.item_id
                 q == req[r].arg.quantity
             IN /\ q <= 0 => ~HasLine(CartItem'[u], i)
                /\ q >= 1 /\ q <= Item[i].quantity
                     => HasLine(CartItem'[u], i) /\ LineOf(CartItem'[u], i).quantity = q
                /\ q > Item[i].quantity
                     => /\ req'[r].response.status = 400
                        /\ CartItem' = CartItem]_vars

\* C21: a remove_from_cart for an item with a line in the caller's cart deletes
\* exactly that line; for an item with no line in the caller's cart it is
\* answered 404 and leaves the cart unchanged.
C21_RemoveFromCart ==
    [][\A r \in Reqs :
          \* the lookup: the request ends here only when the line is not found
          /\ req[r].op = "none" /\ req'[r].op = "remove_from_cart"
             => /\ CartItem' = CartItem
                /\ req'[r].pc = "done" => req'[r].response.status = 404
          \* the deletion
          /\ req[r].op = "remove_from_cart" /\ req[r].pc = "delete" /\ req'[r].pc = "done"
             => /\ req'[r].response.status = 200
                /\ CartItem' = [CartItem EXCEPT ![req[r].user] =
                                   SelectSeq(@, LAMBDA l : l.item # req[r].arg.item_id)]]_vars

NamesItemTwice(lines) ==
    \E k, l \in 1..Len(lines) : k # l /\ lines[k].item = lines[l].item

C23_OneOrderItemPerItem ==
    [][/\ \A id \in DOMAIN Order', i \in DOMAIN Item :
             Cardinality({x \in OrderItem' : x.order = id /\ x.item = i}) <= 1
       /\ \A r \in Reqs :
             /\ req[r].op = "create_order" /\ NamesItemTwice(req[r].lines)
             /\ req'[r] # req[r]
             => /\ books' = books
                /\ req'[r].pc = "done" => req'[r].response.status # 201]_vars

\* A direct order naming item 1 twice has been stopped by the uniqueness of
\* (order, item) on its second line, beside the order already placed.
C23_Witness ==
    /\ \E r \in Reqs : /\ req[r].op = "create_order" /\ req[r].pc = "done"
                       /\ req[r].exc = "IntegrityError"
                       /\ req[r].response.status = 500
    /\ \E id \in DOMAIN Order : Cardinality({x \in OrderItem : x.order = id}) > 1

\* C24: every StockMovement recorded has a reason among initial_stock, restock,
\* sale, order_cancelled and adjustment.
MovementReasons == {"initial_stock", "restock", "sale", "order_cancelled", "adjustment"}

C24_ReasonsAreKnown ==
    \A k \in 1..Len(StockMovement) : StockMovement[k].reason \in MovementReasons

\* C25: no step of update_item changes an Item.quantity: after the update the
\* quantity is the one last written by a stock operation.
C25_UpdateKeepsQuantity ==
    [][\A r \in Reqs :
          req[r].op = "update_item" /\ req'[r] # req[r]
          => \A i \in DOMAIN Item : Item'[i].quantity = Item[i].quantity]_vars

Validated(r, x) ==
    \E k \in 1..Len(req[r].checked) :
        /\ req[r].checked[k].line.item = x.item
        /\ req[r].checked[k].line.quantity = x.quantity

Settled == \A q \in Reqs : req[q].pc \in {"idle", "done"}

\* C29: when requests execute one at a time, after any sequence of create_item,
\* restock_item, add_to_cart, update_cart_item, checkout_cart, create_order and
\* cancel_order operations every Item.quantity is >= 0.
C29_SerialQuantityNeverNegative ==
    Settled => \A i \in DOMAIN Item : Item[i].quantity >= 0

\* A direct order naming an item twice has run (and failed on its second line)
\* with a line in the customer's cart; nothing is under way.
C29_Witness ==
    /\ Settled
    /\ \E r \in Reqs : /\ req[r].op = "create_order" /\ req[r].pc = "done"
                       /\ req[r].exc = "IntegrityError"
    /\ CartItem["u1"] # <<>>
    /\ \E i \in DOMAIN Item : Item[i].quantity = 1

\* C30: when requests execute one at a time and each runs to completion, after
\* any sequence of create_item, restock_item, update_item, checkout_cart,
\* create_order and cancel_order operations the quantity of every item is the
\* sum of the quantity_change of its stock movements.
C30_SerialQuantityIsSumOfMovements ==
    Settled =>
        \A i \in DOMAIN Item :
            SumSeq([k \in 1..Len(MovementsOf(i)) |-> MovementsOf(i)[k].quantity_change])
                = Item[i].quantity

\* An item entered through create_item has been restocked and then taken off
\* sale by update_item; nothing is under way.
C30_Witness ==
    /\ Settled
    /\ DOMAIN Order = {}
    /\ \E i \in DOMAIN Item :
          /\ ~Item[i].is_active
          /\ \E k, l \in 1..Len(StockMovement) :
                /\ StockMovement[k] = Movement(i, 1, "initial_stock")
                /\ StockMovement[l].item = i /\ StockMovement[l].reason = "restock"
          /\ Item[i].quantity > 1

====
